---- MODULE Spec2Model ----
(***************************************************************************)
(* Azure Sentinel app (src/azure-sentinel/1.0.0/src/app.py).               *)
(*                                                                         *)
(* One app instance (self) serves action invocations.  self.s is the only  *)
(* place the HTTP session is kept; every request reads it again.  Each     *)
(* HTTP call of a handler is one step.  The remote endpoints are the       *)
(* environment: each call draws a status code and a body.                  *)
(*                                                                         *)
(* Strings the code takes apart (status, close_reason, last_modified, etag)*)
(* are sequences of one-character strings; the literal parts of an         *)
(* f-string are single elements of such a sequence.                        *)
(***************************************************************************)
EXTENDS Integers, Sequences, FiniteSets, TLC

\* ------------------------------------------------------------------ bounds
MaxLen == 3     \* longest status / close_reason input, in characters
NumInv == 2     \* invocation slots of the one app instance
MaxIncidents == 1   \* longest incident list a list response carries

Inv == 1..NumInv

\* ------------------------------------------------------------ input domains
RECURSIVE StringsUpTo(_, _)
StringsUpTo(alphabet, n) ==
    IF n = 0 THEN {<<>>}
    ELSE LET shorter == StringsUpTo(alphabet, n - 1)
         IN  shorter \cup {Append(x, c) : x \in shorter, c \in alphabet}

StatusInputs == StringsUpTo({"N", "A", ",", " "}, MaxLen)
CloseReasonInputs == StringsUpTo({"F", "-", " "}, MaxLen)
LastModifiedInputs == {<<>>, <<"2", "0">>}
Flags == {"True", "false"}
CommentIds == {"u1", "u2"}

\* ------------------------------------------------------- python str methods
Whitespace == {" "}

RECURSIVE LStrip(_, _)
LStrip(x, chars) ==
    IF x # <<>> /\ Head(x) \in chars THEN LStrip(Tail(x), chars) ELSE x

RECURSIVE RStrip(_, _)
RStrip(x, chars) ==
    IF x # <<>> /\ x[Len(x)] \in chars
    THEN RStrip(SubSeq(x, 1, Len(x) - 1), chars) ELSE x

\* str.strip(chars)
StripChars(x, chars) == RStrip(LStrip(x, chars), chars)

\* str.strip()
Strip(x) == StripChars(x, Whitespace)

\* str.split(sep): "" gives [""], n separators give n + 1 pieces
RECURSIVE Split(_, _)
Split(x, sep) ==
    IF \A k \in 1..Len(x) : x[k] # sep THEN <<x>>
    ELSE LET k == CHOOSE j \in 1..Len(x) :
                     x[j] = sep /\ \A m \in 1..(j - 1) : x[m] # sep
         IN  <<SubSeq(x, 1, k - 1)>> \o Split(SubSeq(x, k + 1, Len(x)), sep)

\* sep.join(xs)
RECURSIVE Join(_, _)
Join(sep, xs) ==
    IF xs = <<>> THEN <<>>
    ELSE IF Len(xs) = 1 THEN xs[1]
    ELSE xs[1] \o sep \o Join(sep, Tail(xs))

\* str.lower() on the flag values
Lower(x) == IF x = "True" THEN "true" ELSE x

\* ------------------------------------------------------------- json / text
\* A response body or a returned string.  json says whether json.loads (or
\* res.json()) accepts it; dumped says the text was produced by json.dumps.
Text(t) == [json |-> FALSE, raw |-> t]
Wire(v) == [json |-> TRUE, val |-> v, dumped |-> FALSE]
Dumps(v) == [json |-> TRUE, val |-> v, dumped |-> TRUE]

HasKey(obj, k) == k \in DOMAIN obj

\* obj[k] = v on a dict
SetKey(obj, k, v) ==
    [x \in DOMAIN obj \cup {k} |-> IF x = k THEN v ELSE obj[x]]

Get(obj, k, default) == IF HasKey(obj, k) THEN obj[k] ELSE default

\* ------------------------------------------------------------------- state
\* s     self.s, the attribute of the one app instance: the session a request
\*       goes through.  owner names the invocation whose authenticate created
\*       it (0: none yet); auth is its default Authorization header.
\* call  the frame of each invocation: its position, its kwargs, its locals,
\*       its result, the requests it has issued (sent) and the response each
\*       of them got (recv).
VARIABLES s, call
vars == <<s, call>>

Actions == {"authenticate", "get_incidents", "get_incident", "close_incident",
            "add_comment"}

NoAuthorization == <<>>
NoSession == [owner |-> 0, auth |-> NoAuthorization]
\* requests.Session(): a new session carries no Authorization header
NewSession(i) == [owner |-> i, auth |-> NoAuthorization]

\* str(None), what a response without access_token puts in the header
NoToken == <<"None">>
NoJson == [none |-> TRUE]
NoResult == [kind |-> "none"]
NoResponse == [status |-> 0, body |-> Text("")]
NoDict == [none |-> TRUE]

DefaultKwargs ==
    [client_id |-> 0, incident_id |-> "i1", status |-> <<>>, last_modified |-> <<>>,
     get_entities |-> "false", get_comments |-> "false",
     close_reason |-> <<>>, close_comment |-> "cc", comment |-> "m"]

Idle ==
    [pc |-> "idle", action |-> "none", kwargs |-> DefaultKwargs,
     auth |-> NoDict, res |-> NoResponse, access_token |-> NoToken,
     incidents |-> <<>>, idx |-> 0, close_data |-> NoJson,
     result |-> NoResult, sent |-> <<>>, recv |-> <<>>]

\* ------------------------------------------------------------ environment
\* What an endpoint can answer: a status code and a body.  Beside the
\* documented answers, a failure may come with a body that is not JSON
\* (a gateway's error page) or with JSON of another shape.
Response(status, body) == [status |-> status, body |-> body]

\* The token endpoint issues each client its own token.
TokenOf(client_id) == <<"T", client_id>>
TokenResponses(client_id) ==
    {Response(200, Wire([access_token |-> TokenOf(client_id)])),
     Response(200, Wire([token_type |-> "Bearer"])),
     Response(401, Wire([error |-> "invalid_client"])),
     Response(401, Text("Bad Gateway"))}

Incident(n) ==
    [id |-> <<"incident", n>>, etag |-> <<"\"", "e", "\"">>,
     properties |-> [title |-> "title", severity |-> "High"]]

RECURSIVE IncidentList(_)
IncidentList(n) == IF n = 0 THEN <<>> ELSE Append(IncidentList(n - 1), Incident(n))

Failures ==
    {Response(404, Wire([error |-> "NotFound"])),
     Response(404, Wire([message |-> "x"])),
     Response(404, Text("Not Found"))}

ListResponses ==
    {Response(200, Wire([value |-> IncidentList(n)])) : n \in 0..MaxIncidents}
        \cup Failures
IncidentResponses ==
    {Response(200, Wire(Incident(1))), Response(200, Wire([name |-> "n"])),
     Response(404, Wire(Incident(1)))}
        \cup Failures
EntitiesResponses ==
    {Response(200, Wire([entities |-> <<"host">>])),
     Response(404, Wire([error |-> "NotFound"])),
     Response(404, Text("Not Found"))}
CommentsResponses ==
    {Response(200, Wire([value |-> <<"note">>])),
     Response(404, Wire([error |-> "NotFound"])),
     Response(404, Text("Not Found"))}
PutResponses ==
    {Response(200, Wire([name |-> "n"])), Response(200, Text("")),
     Response(409, Wire([error |-> "Conflict"]))}

\* ------------------------------------------------------------- frame steps
\* The handler ends: its locals are gone, its result and the requests it
\* issued remain to be looked at.
Ended(f, result) ==
    [Idle EXCEPT !.pc = "done", !.action = f.action, !.kwargs = f.kwargs,
                 !.result = result, !.sent = f.sent, !.recv = f.recv]
Return(f, v) == Ended(f, [kind |-> "return", value |-> v])
Raise(f, e) == Ended(f, [kind |-> "raise", exc |-> e])
Str(text) == [type |-> "str", text |-> text]
Dict(d) == [type |-> "dict", dict |-> d]

Url(kind, id, uri, comment_id) ==
    [kind |-> kind, id |-> id, uri |-> uri, comment_id |-> comment_id]

\* self.s.<method>(url, params=..., json=...): the request goes through the
\* session self.s names at that moment and carries that session's headers
Request(method, url, params, json) ==
    [method |-> method, url |-> url, params |-> params, json |-> json,
     via |-> s.owner, auth |-> s.auth]

Send(f, req, res) == [f EXCEPT !.sent = Append(@, req), !.recv = Append(@, res)]

ApiVersion(v) == [api_version |-> v]

\* ------------------------------------------------------------ authenticate
\* as line 48 with the token left out of the header
BearerHeadersWithoutToken(access_token) == <<"Bearer ">> \o NoToken

\* line 48: the headers the session gets
BearerHeaders(access_token) == <<"Bearer ">> \o access_token

\* ---------------------------------------------------------- get_incidents
\* lines 88-90: the status clauses
StatusFilters(status) ==
    LET pieces == Split(status, ",")
    IN  [k \in 1..Len(pieces) |->
            <<"properties/status eq '">> \o Strip(pieces[k]) \o <<"'">>]

\* as lines 86-99 with the last_modified branch building its clause anew,
\* dropping the status clause built before it
QueryFilterOverwritten(kwargs) ==
    LET q1 == IF kwargs.status # <<>>
              THEN <<"( ">> \o Join(<<" or ">>, StatusFilters(kwargs.status)) \o <<" )">>
              ELSE <<>>
    IN  IF kwargs.last_modified # <<>>
        THEN <<" and (properties/lastModifiedTimeUtc ge ">>
                \o kwargs.last_modified \o <<"Z)">>
        ELSE q1

\* lines 86-99: the query filter ("" when neither input is given)
QueryFilter(kwargs) ==
    LET q1 == IF kwargs.status # <<>>
              THEN <<"( ">> \o Join(<<" or ">>, StatusFilters(kwargs.status)) \o <<" )">>
              ELSE <<>>
    IN  IF kwargs.last_modified # <<>>
        THEN q1 \o <<" and (properties/lastModifiedTimeUtc ge ">>
                \o kwargs.last_modified \o <<"Z)">>
        ELSE q1

\* lines 83, 101-102
ListParams(kwargs) ==
    LET query_filter == QueryFilter(kwargs)
    IN  IF query_filter # <<>>
        THEN SetKey(ApiVersion("2020-01-01"), "$filter", query_filter)
        ELSE ApiVersion("2020-01-01")

\* ----------------------------------------------------------- get_incident
\* as line 126 with a test for the missing key only, letting "" through
NoIncidentIdKey(kwargs) == ~HasKey(kwargs, "incident_id")

\* line 126: not kwargs.get("incident_id")
NoIncidentId(kwargs) == ~HasKey(kwargs, "incident_id") \/ kwargs.incident_id = ""

NoIncidentIdText == Dumps([success |-> FALSE, error |-> "No incident ID supplied"])

\* --------------------------------------------------------- close_incident
\* as lines 159-172 with close_reason split at its first hyphen only
\* (split("-", 1))
CloseDataSplitOnce(incident, kwargs) ==
    LET x == kwargs.close_reason
        hyphens == {k \in 1..Len(x) : x[k] = "-"}
        first == CHOOSE k \in hyphens : \A m \in hyphens : k <= m
        properties ==
            [title |-> incident.properties.title,
             status |-> "Closed",
             severity |-> incident.properties.severity,
             classification |->
                IF hyphens = {} THEN Strip(x) ELSE Strip(SubSeq(x, 1, first - 1)),
             classificationComment |-> kwargs.close_comment]
    IN  [etag |-> StripChars(Get(incident, "etag", <<>>), {"\""}),
         properties |->
            IF hyphens # {}
            THEN SetKey(properties, "classificationReason",
                        Strip(SubSeq(x, first + 1, Len(x))))
            ELSE properties]

\* lines 159-172
CloseData(incident, kwargs) ==
    LET pieces == Split(kwargs.close_reason, "-")
        close_reason == [k \in 1..Len(pieces) |-> Strip(pieces[k])]
        properties ==
            [title |-> incident.properties.title,
             status |-> "Closed",
             severity |-> incident.properties.severity,
             classification |-> close_reason[1],
             classificationComment |-> kwargs.close_comment]
    IN  [etag |-> StripChars(Get(incident, "etag", <<>>), {"\""}),
         properties |->
            IF Len(close_reason) > 1
            THEN SetKey(properties, "classificationReason", close_reason[2])
            ELSE properties]

\* line 155: the nested result counts as a failure when it has an "error" key
IsFailure(incident) == HasKey(incident, "error")

\* What follows get_incident's return of the string r: the handler's own
\* return, or close_incident's lines 154-172.
AfterGetIncident(f, r) ==
    IF f.action = "get_incident" THEN Return(f, Str(r))
    ELSE IF ~r.json THEN Raise(f, "JSONDecodeError")
    ELSE LET incident == r.val
         IN  IF IsFailure(incident) THEN Return(f, Str(Dumps(incident)))
             ELSE IF ~HasKey(incident, "properties") THEN Raise(f, "KeyError")
             ELSE [f EXCEPT !.pc = "close_put",
                            !.close_data = CloseData(incident, f.kwargs)]

\* What follows authenticate's return of the dict auth, per handler
\* (lines 79-80, 130-132, 192-193).
AfterAuthenticate(f, auth) ==
    LET g == [f EXCEPT !.auth = auth, !.res = NoResponse]
    IN  CASE f.action = "authenticate" -> Return(g, Dict(auth))
          [] f.action = "get_incidents" ->
                IF ~auth.success THEN Return(g, Dict([error |-> auth.message]))
                ELSE [g EXCEPT !.pc = "list_get"]
          [] f.action = "add_comment" ->
                IF ~auth.success THEN Return(g, Dict([error |-> auth.message]))
                ELSE [g EXCEPT !.pc = "comment_put"]
          [] OTHER -> [g EXCEPT !.pc = "incident_get"]

Wants(kwargs, flag) == Lower(kwargs[flag]) = "true"

\* What follows the enrichment of the fetched incidents (lines 122, 150).
AfterEnrich(f) ==
    IF f.action = "get_incidents"
    THEN Return([f EXCEPT !.idx = 0], Str(Dumps(f.incidents)))
    ELSE AfterGetIncident([f EXCEPT !.idx = 0, !.incidents = <<>>],
                          Dumps(f.incidents[1]))

\* lines 111-120, 143-148: the next extractor call, if any
EnrichFrom(f, phase, k) ==
    IF phase = "entities" /\ Wants(f.kwargs, "get_entities") /\ k <= Len(f.incidents)
    THEN [f EXCEPT !.pc = "entities", !.idx = k]
    ELSE IF phase = "entities" THEN
        IF Wants(f.kwargs, "get_comments") /\ 1 <= Len(f.incidents)
        THEN [f EXCEPT !.pc = "comments", !.idx = 1]
        ELSE AfterEnrich(f)
    ELSE IF Wants(f.kwargs, "get_comments") /\ k <= Len(f.incidents)
    THEN [f EXCEPT !.pc = "comments", !.idx = k]
    ELSE AfterEnrich(f)

\* ------------------------------------------------------------- invocations
\* The kwargs an action can be invoked with: the parameters it reads vary,
\* the others keep their defaults.
Without(obj, k) == [x \in DOMAIN obj \ {k} |-> obj[x]]

\* incident_id given, given empty, or not given at all
IncidentIdInputs ==
    {DefaultKwargs, [DefaultKwargs EXCEPT !.incident_id = ""],
     Without(DefaultKwargs, "incident_id")}

KwargsOf(a) ==
    CASE a = "get_incidents" ->
            {[DefaultKwargs EXCEPT !.status = st, !.last_modified = lm,
                                   !.get_entities = ge, !.get_comments = gc] :
                st \in StatusInputs, lm \in LastModifiedInputs,
                ge \in Flags, gc \in Flags}
      [] a = "get_incident" ->
            {[kw EXCEPT !.get_entities = ge, !.get_comments = gc] :
                kw \in IncidentIdInputs, ge \in Flags, gc \in Flags}
      [] a = "close_incident" ->
            {[kw EXCEPT !.close_reason = cr, !.get_entities = ge] :
                kw \in IncidentIdInputs, cr \in CloseReasonInputs, ge \in Flags}
      [] OTHER -> {DefaultKwargs}

\* The short inputs: what the concurrent specification invokes with.
ShortKwargsOf(a) ==
    {k \in KwargsOf(a) :
        /\ k.status = <<>> /\ k.close_reason = <<>> /\ k.last_modified = <<>>
        /\ ~NoIncidentId(k)
        /\ k.get_entities = "True" => a = "get_incident"
        /\ k.get_comments = "True" => a = "get_incidents"}

\* Entry of a handler, up to its first use of self.s (lines 124-130).
Enter(a, kwargs) ==
    LET f == [Idle EXCEPT !.pc = "auth_new", !.action = a, !.kwargs = kwargs]
    IN  IF a \in {"get_incident", "close_incident"} /\ NoIncidentId(kwargs)
        THEN AfterGetIncident(f, NoIncidentIdText)
        ELSE f

\* Every ended handler's result has gone back to its caller.  An ended
\* handler touches nothing any more, so handing its result back first (Finish)
\* takes no behaviour of the others away.
Delivered == \A j \in Inv : call[j].pc # "done"

\* An action is invoked while no other invocation is in progress.  Invocation
\* i comes with the credentials of client i.
Start(i) ==
    /\ \A j \in Inv : call[j].pc = "idle"
    /\ \E a \in Actions : \E kwargs \in KwargsOf(a) :
          call' = [call EXCEPT ![i] = Enter(a, [kwargs EXCEPT !.client_id = i])]
    /\ UNCHANGED s

\* An action is invoked while others may be in progress on the same instance.
StartConcurrent(i) ==
    /\ Delivered
    /\ call[i].pc = "idle"
    /\ \E a \in Actions : \E kwargs \in ShortKwargsOf(a) :
          call' = [call EXCEPT ![i] = Enter(a, [kwargs EXCEPT !.client_id = i])]
    /\ UNCHANGED s

\* line 27
AuthNewSession(i) ==
    /\ Delivered
    /\ call[i].pc = "auth_new"
    /\ s' = NewSession(i)
    /\ call' = [call EXCEPT ![i].pc = "auth_post"]

\* lines 41-47
AuthPost(i) ==
    /\ Delivered
    /\ call[i].pc = "auth_post"
    /\ \E res \in TokenResponses(call[i].kwargs.client_id) :
          LET f == Send(call[i], Request("POST", Url("token", "", <<>>, ""),
                                         NoJson, NoJson), res)
          IN  call' = [call EXCEPT ![i] =
                IF ~res.body.json THEN Raise(f, "JSONDecodeError")
                ELSE IF res.status # 200
                THEN AfterAuthenticate(f, [success |-> FALSE, message |-> res.body])
                ELSE [f EXCEPT !.pc = "auth_headers", !.res = res,
                               !.access_token = Get(res.body.val, "access_token", NoToken)]]
    /\ UNCHANGED s

\* lines 48-49
AuthSetHeaders(i) ==
    /\ Delivered
    /\ call[i].pc = "auth_headers"
    /\ s' = [s EXCEPT !.auth = BearerHeaders(call[i].access_token)]
    /\ call' = [call EXCEPT ![i] =
          AfterAuthenticate([call[i] EXCEPT !.access_token = NoToken],
                            [success |-> TRUE, message |-> call[i].res.body])]

\* lines 104-108
ListGet(i) ==
    /\ Delivered
    /\ call[i].pc = "list_get"
    /\ \E res \in ListResponses :
          LET f == Send(call[i], Request("GET", Url("incidents", "", <<>>, ""),
                                         ListParams(call[i].kwargs), NoJson), res)
          IN  call' = [call EXCEPT ![i] =
                IF res.status # 200 THEN Return(f, Str(res.body))
                ELSE IF ~res.body.json THEN Raise(f, "JSONDecodeError")
                ELSE IF ~HasKey(res.body.val, "value") THEN Raise(f, "KeyError")
                ELSE EnrichFrom([f EXCEPT !.incidents = res.body.val.value],
                                "entities", 1)]
    /\ UNCHANGED s

\* lines 137-140
IncidentGet(i) ==
    /\ Delivered
    /\ call[i].pc = "incident_get"
    /\ \E res \in IncidentResponses :
          LET f == Send(call[i],
                        Request("GET", Url("incident", call[i].kwargs.incident_id, <<>>, ""),
                                ApiVersion("2020-01-01"), NoJson), res)
          IN  call' = [call EXCEPT ![i] =
                IF res.status # 200 THEN AfterGetIncident(f, res.body)
                ELSE IF ~res.body.json THEN Raise(f, "JSONDecodeError")
                ELSE EnrichFrom([f EXCEPT !.incidents = <<res.body.val>>],
                                "entities", 1)]
    /\ UNCHANGED s

\* extract_entities, lines 51-60, with its call site (lines 114, 144)
ExtractEntities(i) ==
    /\ Delivered
    /\ call[i].pc = "entities"
    /\ LET f == call[i]
           incident == f.incidents[f.idx]
       IN  \/ /\ ~HasKey(incident, "id")
              /\ call' = [call EXCEPT ![i] = Raise(f, "KeyError")]
           \/ /\ HasKey(incident, "id")
              /\ \E res \in EntitiesResponses :
                    LET g == Send(f, Request("POST", Url("entities", "", incident.id, ""),
                                             ApiVersion("2019-01-01-preview"), NoJson), res)
                    IN  call' = [call EXCEPT ![i] =
                          IF ~res.body.json THEN Raise(g, "JSONDecodeError")
                          ELSE EnrichFrom(
                                 [g EXCEPT !.incidents[f.idx] =
                                     SetKey(incident, "entities",
                                            Get(res.body.val, "entities", <<>>))],
                                 "entities", f.idx + 1)]
    /\ UNCHANGED s

\* extract_comments, lines 62-71, with its call site (lines 120, 148)
ExtractComments(i) ==
    /\ Delivered
    /\ call[i].pc = "comments"
    /\ LET f == call[i]
           incident == f.incidents[f.idx]
       IN  \/ /\ ~HasKey(incident, "id")
              /\ call' = [call EXCEPT ![i] = Raise(f, "KeyError")]
           \/ /\ HasKey(incident, "id")
              /\ \E res \in CommentsResponses :
                    LET g == Send(f, Request("GET", Url("comments", "", incident.id, ""),
                                             ApiVersion("2020-01-01"), NoJson), res)
                    IN  call' = [call EXCEPT ![i] =
                          IF ~res.body.json THEN Raise(g, "JSONDecodeError")
                          ELSE EnrichFrom(
                                 [g EXCEPT !.incidents[f.idx] =
                                     SetKey(incident, "comments",
                                            Get(res.body.val, "value", <<>>))],
                                 "comments", f.idx + 1)]
    /\ UNCHANGED s

\* lines 174-184
ClosePut(i) ==
    /\ Delivered
    /\ call[i].pc = "close_put"
    /\ \E res \in PutResponses :
          LET f == Send(call[i],
                        Request("PUT", Url("incident", call[i].kwargs.incident_id, <<>>, ""),
                                ApiVersion("2020-01-01"), call[i].close_data), res)
              g == [f EXCEPT !.close_data = NoJson]
          IN  call' = [call EXCEPT ![i] =
                IF res.status # 200 THEN Return(g, Str(res.body))
                ELSE IF ~res.body.json THEN Raise(g, "JSONDecodeError")
                ELSE Return(g, Str(Dumps(SetKey(res.body.val, "success", TRUE))))]
    /\ UNCHANGED s

\* lines 195-208; uuid.uuid4() is a random draw
AddCommentPut(i) ==
    /\ Delivered
    /\ call[i].pc = "comment_put"
    /\ \E comment_id \in CommentIds : \E res \in PutResponses :
          LET comment_data == [properties |-> [message |-> call[i].kwargs.comment]]
              f == Send(call[i],
                        Request("PUT", Url("comment", call[i].kwargs.incident_id, <<>>,
                                           comment_id),
                                ApiVersion("2020-01-01"), comment_data), res)
          IN  call' = [call EXCEPT ![i] =
                IF res.status # 200 THEN Return(f, Str(res.body))
                ELSE IF ~res.body.json THEN Raise(f, "JSONDecodeError")
                ELSE Return(f, Str(Dumps(SetKey(res.body.val, "success", TRUE))))]
    /\ UNCHANGED s

\* The result went back to the caller; the frame is gone.
Finish(i) ==
    /\ call[i].pc = "done"
    /\ call' = [call EXCEPT ![i] = Idle]
    /\ UNCHANGED s

Step(i) ==
    \/ AuthNewSession(i)
    \/ AuthPost(i)
    \/ AuthSetHeaders(i)
    \/ ListGet(i)
    \/ IncidentGet(i)
    \/ ExtractEntities(i)
    \/ ExtractComments(i)
    \/ ClosePut(i)
    \/ AddCommentPut(i)
    \/ Finish(i)

Init ==
    /\ s = NoSession
    /\ call = [i \in Inv |-> Idle]

Next == \E i \in Inv : Start(i) \/ Step(i)

\* Invocations one at a time: asyncio.run drives one handler, whose awaits
\* never suspend (line 212).
Spec == Init /\ [][Next]_vars

NextConcurrent == \E i \in Inv : StartConcurrent(i) \/ Step(i)

\* Invocations overlapping on the one instance: between two uses of self.s by
\* one handler (lines 27, 41, 48 and each request) another handler may run.
SpecConcurrent == Init /\ [][NextConcurrent]_vars

\* ------------------------------------------------------------------ claims
\* The access_token of the 200 response invocation f got from the token
\* endpoint, NoToken if it got none.
TokenReceived(f) ==
    IF /\ Len(f.recv) >= 1
       /\ f.sent[1].url.kind = "token"
       /\ f.recv[1].status = 200
       /\ f.recv[1].body.json
       /\ HasKey(f.recv[1].body.val, "access_token")
    THEN f.recv[1].body.val.access_token
    ELSE NoToken

Running(i) == call[i].pc # "idle"

\* C1: Get Incident invoked with a missing or an empty incident_id has
\* returned the string {"success": false, "error": "No incident ID supplied"}
\* and has issued no HTTP request.
C1_NoIncidentIdNoRequest ==
    \A i \in Inv :
        LET f == call[i]
        IN  (/\ Running(i)
             /\ f.action = "get_incident"
             /\ (~HasKey(f.kwargs, "incident_id") \/ f.kwargs.incident_id = ""))
            => /\ f.pc = "done"
               /\ f.result = [kind |-> "return",
                              value |-> Str(Dumps([success |-> FALSE,
                                                   error |-> "No incident ID supplied"]))]
               /\ f.sent = <<>>

\* C1's case: Get Incident was invoked with an empty incident_id and has
\* returned.
C1_Witness ==
    \E i \in Inv :
        /\ call[i].action = "get_incident"
        /\ call[i].pc = "done"
        /\ HasKey(call[i].kwargs, "incident_id")
        /\ call[i].kwargs.incident_id = ""
        /\ call[i].result.kind = "return"

\* C2: once authenticate got a 200 response with access_token T, every
\* later request of the invocation carries Authorization: Bearer T.
C2_LaterRequestsCarryToken ==
    \A i \in Inv :
        LET f == call[i]
        IN  TokenReceived(f) # NoToken
            => \A k \in 2..Len(f.sent) :
                  f.sent[k].auth = <<"Bearer ">> \o TokenReceived(f)

\* C2's case: a Close Incident that authenticated, fetched the incident with
\* its entities and sent the closing PUT.
C2_Witness ==
    \E i \in Inv :
        LET f == call[i]
        IN  /\ f.action = "close_incident"
            /\ TokenReceived(f) # NoToken
            /\ Len(f.sent) = 4
            /\ f.sent[3].method = "POST"
            /\ f.sent[4].method = "PUT"
            /\ f.sent[4].auth = <<"Bearer ">> \o TokenOf(i)

\* --- what the claims say of the strings, stated on positions -------------
Min(S) == CHOOSE x \in S : \A y \in S : x <= y
Max(S) == CHOOSE x \in S : \A y \in S : x >= y

Positions(x, c) == {k \in 1..Len(x) : x[k] = c}

\* the n-th part of x between occurrences of c (n = 1: before the first)
Part(x, c, n) ==
    LET cuts == Positions(x, c)
        from == IF n = 1 THEN 1
                ELSE 1 + CHOOSE k \in cuts : Cardinality({m \in cuts : m < k}) = n - 2
        to   == IF n = Cardinality(cuts) + 1 THEN Len(x)
                ELSE (CHOOSE k \in cuts : Cardinality({m \in cuts : m < k}) = n - 1) - 1
    IN  SubSeq(x, from, to)

\* x without the blanks around it
Trimmed(x) ==
    LET inked == {k \in 1..Len(x) : x[k] # " "}
    IN  IF inked = {} THEN <<>> ELSE SubSeq(x, Min(inked), Max(inked))

RECURSIVE StatusClause(_, _)
\* properties/status eq 's1' or ... or properties/status eq 'sn'
StatusClause(status, n) ==
    LET one == <<"properties/status eq '">> \o Trimmed(Part(status, ",", n)) \o <<"'">>
    IN  IF n = 1 THEN one ELSE StatusClause(status, n - 1) \o <<" or ">> \o one

ListRequests(f) == {k \in 1..Len(f.sent) : f.sent[k].url.kind = "incidents"}

\* C4: with a non-empty status list s1,...,sn the $filter of List Incidents
\* is "( properties/status eq 's1' or ... or properties/status eq 'sn' )",
\* each status trimmed and in input order, followed, when last_modified = v
\* is given too, by " and (properties/lastModifiedTimeUtc ge vZ)".
C4_StatusFilterKept ==
    \A i \in Inv :
        LET f == call[i]
            status == f.kwargs.status
            clause == <<"( ">>
                        \o StatusClause(status, Cardinality(Positions(status, ",")) + 1)
                        \o <<" )">>
        IN  status # <<>>
            => \A k \in ListRequests(f) :
                  /\ HasKey(f.sent[k].params, "$filter")
                  /\ f.sent[k].params["$filter"] =
                        IF f.kwargs.last_modified = <<>> THEN clause
                        ELSE clause \o <<" and (properties/lastModifiedTimeUtc ge ">>
                                    \o f.kwargs.last_modified \o <<"Z)">>

\* C4's case: List Incidents sent its request with two statuses, one of them
\* with a blank to trim, and with last_modified.
C4_Witness ==
    \E i \in Inv :
        /\ call[i].kwargs.status = <<"N", ",", " ">>
        /\ call[i].kwargs.last_modified # <<>>
        /\ ListRequests(call[i]) # {}
        /\ call[i].sent[2].params["$filter"] =
              <<"( ", "properties/status eq '", "N", "'", " or ",
                "properties/status eq '", "'", " )",
                " and (properties/lastModifiedTimeUtc ge ", "2", "0", "Z)">>

\* C10: with last_modified = v and no status the $filter is exactly
\* "(properties/lastModifiedTimeUtc ge vZ)", with no leading "and"; with
\* neither input no $filter is sent.
C10_LastModifiedAlone ==
    \A i \in Inv :
        LET f == call[i]
        IN  f.kwargs.status = <<>>
            => \A k \in ListRequests(f) :
                  IF f.kwargs.last_modified = <<>>
                  THEN ~HasKey(f.sent[k].params, "$filter")
                  ELSE /\ HasKey(f.sent[k].params, "$filter")
                       /\ f.sent[k].params["$filter"] =
                             <<"(properties/lastModifiedTimeUtc ge ">>
                                \o f.kwargs.last_modified \o <<"Z)">>

\* The half of C10 the code keeps: with neither input no $filter is sent.
C10_NoInputNoFilter ==
    \A i \in Inv :
        LET f == call[i]
        IN  (f.kwargs.status = <<>> /\ f.kwargs.last_modified = <<>>)
            => \A k \in ListRequests(f) : ~HasKey(f.sent[k].params, "$filter")

\* the closing PUTs of Close Incident, and the incident its GET fetched
ClosePuts(f) ==
    {k \in 1..Len(f.sent) : f.sent[k].method = "PUT" /\ f.sent[k].url.kind = "incident"}
Fetches(f) ==
    {k \in 1..Len(f.sent) : f.sent[k].method = "GET" /\ f.sent[k].url.kind = "incident"}
Fetched(f) == f.recv[Min(Fetches(f))].body.val

\* What C5 says of the payload whatever the reason attached: status Closed,
\* title and severity of the fetched incident, classification the trimmed
\* part before the first hyphen, classificationReason there exactly when
\* close_reason has a hyphen.
PayloadBase(f, payload) ==
    /\ payload.properties.status = "Closed"
    /\ payload.properties.title = Fetched(f).properties.title
    /\ payload.properties.severity = Fetched(f).properties.severity
    /\ payload.properties.classification = Trimmed(Part(f.kwargs.close_reason, "-", 1))
    /\ HasKey(payload.properties, "classificationReason")
          <=> Positions(f.kwargs.close_reason, "-") # {}

\* C5 as claimed: classificationReason is the trimmed part of close_reason
\* after its first hyphen.
C5_ReasonAfterFirstHyphen ==
    \A i \in Inv : \A k \in ClosePuts(call[i]) :
        LET f == call[i]
            payload == f.sent[k].json
            x == f.kwargs.close_reason
        IN  /\ PayloadBase(f, payload)
            /\ Positions(x, "-") # {}
                  => payload.properties.classificationReason =
                        Trimmed(SubSeq(x, Min(Positions(x, "-")) + 1, Len(x)))

\* C5 as amended: classificationReason is the trimmed part of close_reason
\* between its first hyphen and its next hyphen, or its end when there is
\* no further hyphen.
C5_ReasonBetweenHyphens ==
    \A i \in Inv : \A k \in ClosePuts(call[i]) :
        LET f == call[i]
            payload == f.sent[k].json
            x == f.kwargs.close_reason
        IN  /\ PayloadBase(f, payload)
            /\ Positions(x, "-") # {}
                  => payload.properties.classificationReason = Trimmed(Part(x, "-", 2))

\* C5's case: Close Incident sent its PUT for a close_reason with a hyphen
\* and a blank to trim, and for one with no hyphen.
C5_Witness ==
    \E i \in Inv : \E k \in ClosePuts(call[i]) :
        LET payload == call[i].sent[k].json
        IN  /\ call[i].kwargs.close_reason = <<"F", "-", " ">>
            /\ payload.properties.classification = <<"F">>
            /\ payload.properties.classificationReason = <<>>

\* the token endpoint answered invocation f with a status other than 200
AuthFailed(f) ==
    /\ Len(f.recv) >= 1
    /\ f.sent[1].url.kind = "token"
    /\ f.recv[1].status # 200

\* C3: on any non-200 response of the token endpoint, whatever its body,
\* authenticate returns (it does not raise) success = false with the raw
\* body as message, and the session gets no Authorization header.
C3_FailureResultWhateverBody ==
    \A i \in Inv :
        LET f == call[i]
            failure == [success |-> FALSE, message |-> f.recv[1].body]
        IN  AuthFailed(f)
            => /\ ~(f.result.kind = "raise" /\ Len(f.sent) = 1)
               /\ f.action = "authenticate"
                     => f.result = [kind |-> "return", value |-> Dict(failure)]
               /\ f.pc = "incident_get" => f.auth = failure
               /\ s.owner = i => s.auth = NoAuthorization

\* C7: when authentication fails, List Incidents and Add Comment end with
\* {"error": <raw token-endpoint body>} and issue no request to the
\* management API; Get Incident and Close Incident go on to issue the
\* resource request.
C7_AuthFailureSurfacedOrIgnored ==
    \A i \in Inv :
        LET f == call[i]
        IN  AuthFailed(f)
            => /\ f.action \in {"get_incidents", "add_comment"}
                     => /\ f.pc = "done"
                        /\ f.result = [kind |-> "return",
                                       value |-> Dict([error |-> f.recv[1].body])]
                        /\ Len(f.sent) = 1
               /\ (f.action \in {"get_incident", "close_incident"} /\ f.pc = "done")
                     => Fetches(f) # {}

SameText(a, b) ==
    /\ a.json = b.json
    /\ a.json => a.val = b.val
    /\ ~a.json => a.raw = b.raw

\* C8: Close Incident sends its PUT only after a fetch answered 200; when
\* the nested Get Incident returned a failure (no incident_id, or a non-200
\* answer to the fetch, whatever its body), Close Incident returns that
\* failure and sends no PUT.
C8_PutOnlyAfterFetch ==
    \A i \in Inv :
        LET f == call[i]
            missing == ~HasKey(f.kwargs, "incident_id") \/ f.kwargs.incident_id = ""
            fetch == Min(Fetches(f))
        IN  (Running(i) /\ f.action = "close_incident")
            => /\ ClosePuts(f) # {}
                     => Fetches(f) # {} /\ f.recv[fetch].status = 200
               /\ missing
                     => /\ f.pc = "done"
                        /\ f.sent = <<>>
                        /\ f.result = [kind |-> "return",
                                       value |-> Str(Dumps([success |-> FALSE,
                                                 error |-> "No incident ID supplied"]))]
               /\ (Fetches(f) # {} /\ f.recv[fetch].status # 200)
                     => /\ f.pc = "done"
                        /\ ClosePuts(f) = {}
                        /\ f.result.kind = "return"
                        /\ SameText(f.result.value.text, f.recv[fetch].body)

\* C9: with invocations overlapping on the instance, each resource request
\* of an invocation goes through the session its own authenticate created
\* and carries its own token.
C9_OwnSessionOwnToken ==
    \A i \in Inv :
        LET f == call[i]
        IN  \A k \in 2..Len(f.sent) :
              /\ f.sent[k].via = i
              /\ TokenReceived(f) # NoToken
                    => f.sent[k].auth = <<"Bearer ">> \o TokenReceived(f)

====
